---- MODULE Spec2Model ----
(***************************************************************************)
(* Model of the maybe-rc crate: MaybeRc (src/src/lib.rs, the transmute     *)
(* variant), MaybeRc (src/src/rc.rs, the upgrade variant), MaybeArc        *)
(* (src/src/arc.rs) and try_new_cyclic_rc (src/src/try_new_cyclic_rc.rs).  *)
(*                                                                         *)
(* One allocation (the RcBox / ArcInner control block with its payload     *)
(* slot) is followed from before its construction to its deallocation.     *)
(* The variant that drives it is chosen in Init.  The thread that runs     *)
(* new / materialize / try_new_cyclic_rc is "main"; its position is pc.    *)
(* In the Arc variant a second thread "other" may clone, upgrade and drop  *)
(* handles at any point, also in the middle of materialize.                *)
(***************************************************************************)
EXTENDS Integers, FiniteSets, Sequences, TLC

\* ------------------------------------------------------------------ bounds
MaxObservers == 2      \* user-held Weak<T> handles alive at the same time
MaxOwners == 2         \* user-held Rc<T>/Arc<T> handles alive at the same time

Values == {"v1", "v2"}     \* the T values handed to materialize / returned by f
Errors == {"e1", "e2"}     \* the E values returned by f

Flavors == {"lib", "rc", "arc", "cyc"}

VARIABLES
    flavor,        \* which source file drives the allocation
    pc,            \* position of the main thread
    a,             \* the allocation: counts, payload slot, ghost counters
    cellWeak,      \* MaybeRc.weak / new_cyclic's internal Weak is a live handle
    handed,        \* the Weak<T> local of the new_cyclic closure is live
    observers,     \* number of user-held Weak<T> handles outside the payload
    owners,        \* number of user-held Rc<T>/Arc<T> handles
    value,         \* the T passed to materialize, or f's Ok payload
    fRet,          \* what the constructor f returned
    error,         \* try_new_cyclic_rc's local `error`
    ret,           \* what try_new_cyclic_rc returned
    last,          \* the last completed operation and its result
    everUpgraded,  \* some upgrade() on a user observer has returned Some
    twin           \* lib.rs / rc.rs: the other of the two MaybeRc, run in
                   \* lockstep on the same completed operations

vars == <<flavor, pc, a, cellWeak, handed, observers, owners, value, fRet,
          error, ret, last, everUpgraded, twin>>

None == [tag |-> "None", val |-> "-"]
Ok(v) == [tag |-> "Ok", val |-> v]
Err(e) == [tag |-> "Err", val |-> e]

Did(op) == [op |-> op, res |-> "-", seen |-> "-"]

\* ------------------------------------------------ std reference counting

\* memory before any allocation exists
NoAlloc ==
    [state |-> "unalloc", strong |-> 0, weak |-> 0, slot |-> "uninit",
     held |-> 0, published |-> FALSE, drops |-> 0, frees |-> 0]

\* Rc::new(UnsafeCell::new(MaybeUninit::uninit())): strong = 1, weak = 1
RcNew == [NoAlloc EXCEPT !.state = "live", !.strong = 1, !.weak = 1]

\* an allocation made by Rc::new instead of Rc::new_cyclic
RcNewCyclicAllocStrong == RcNew

\* Rc::new_cyclic before the closure runs: strong = 0, weak = 1
RcNewCyclicAlloc == [NoAlloc EXCEPT !.state = "live", !.strong = 0, !.weak = 1]

\* Weak::clone, Rc::downgrade
IncWeak(b) == [b EXCEPT !.weak = @ + 1]

\* Weak::drop: the allocation is freed when the weak count reaches 0
DecWeak(b) ==
    IF b.weak = 1
    THEN [b EXCEPT !.weak = 0, !.state = "freed", !.frees = @ + 1]
    ELSE [b EXCEPT !.weak = @ - 1]

RECURSIVE DecWeakN(_, _)
DecWeakN(b, n) == IF n = 0 THEN b ELSE DecWeakN(DecWeak(b), n - 1)

\* Rc::increment_strong_count, Rc::clone: a plain / Relaxed increment.
\* A Relaxed read-modify-write does not publish earlier plain writes.
IncStrong(b) == [b EXCEPT !.strong = @ + 1]

\* The Release half of Arc::drop's fetch_sub: what thread t has written to
\* the payload slot becomes visible to every later Acquire of the count.
Release(b, t) ==
    [b EXCEPT !.published = @ \/ (t = "main" /\ b.slot \in Values)]

\* drop_in_place of the payload.  typed: the handle is Rc<T>, so T's
\* destructor runs and drops the Weak<T> handles stored in the value.
\* Otherwise the handle is Rc<MaybeUninit<T>>, whose drop does nothing.
DropValue(b, typed) ==
    IF typed
    THEN DecWeakN([b EXCEPT !.drops = @ + 1, !.slot = "dropped", !.held = 0],
                  b.held)
    ELSE b

\* Rc::drop, Rc::decrement_strong_count: on the last strong reference the
\* payload is dropped and then the owners' collective weak reference.
DecStrong(b, typed, t) ==
    IF b.strong = 1
    THEN DecWeak(DropValue(Release([b EXCEPT !.strong = 0], t), typed))
    ELSE Release([b EXCEPT !.strong = @ - 1], t)

\* what a successful upgrade by thread t can find in the payload slot: the
\* upgrading CAS is Acquire, so it sees the write once it was published;
\* an unpublished write races with the reader, which may still see the
\* uninitialized slot
Visible(b, t) ==
    IF t = "main" \/ b.published THEN {b.slot} ELSE {b.slot, "uninit"}

\* Weak::upgrade succeeds exactly when the strong count is not 0
CanUpgrade(b) == b.strong > 0

\* ------------------------------------------------------------- scheduling

Threads == IF flavor = "arc" THEN {"main", "other"} ELSE {"main"}

\* main runs user code between the library calls; the other thread of the
\* Arc variant runs whenever it holds a handle
UserCode(t) ==
    \/ t = "main" /\ pc \in {"cell", "c_f", "owned", "discarded"}
    \/ t = "other" /\ flavor = "arc"

\* some Weak<T> is within reach of user code: a user-held one, the one lent
\* to the constructor, or one stored in the payload of a live owner
ObserverAvailable ==
    \/ observers > 0
    \/ handed /\ pc = "c_f"
    \/ a.held > 0 /\ owners > 0

\* lib.rs and rc.rs are compared: each runs as the main allocation with the
\* other one as its twin
Twinned == flavor \in {"lib", "rc"}

\* the twin completes an operation that leaves its allocation as b and
\* has the result record r
TwinDoes(b, r) ==
    twin' = IF Twinned THEN [a |-> b, last |-> r] ELSE twin

\* what a caller can observe of an allocation
View(b) ==
    [strong |-> b.strong, weak |-> b.weak, slot |-> b.slot,
     state |-> b.state, drops |-> b.drops, frees |-> b.frees]

Init ==
    /\ flavor \in Flavors
    /\ pc = "start"
    /\ a = NoAlloc
    /\ cellWeak = FALSE
    /\ handed = FALSE
    /\ observers = 0
    /\ owners = 0
    /\ value = "-"
    /\ fRet = None
    /\ error = None
    /\ ret = None
    /\ last = Did("init")
    /\ everUpgraded = FALSE
    /\ twin = [a |-> NoAlloc, last |-> Did("init")]

\* ---------------------------------------------------- MaybeRc / MaybeArc

\* new(), first statement: let strong = Rc::new(...)
NewAlloc ==
    /\ flavor \in {"lib", "rc", "arc"}
    /\ pc = "start"
    /\ a' = RcNew
    /\ pc' = "n_alloc"
    /\ last' = Did("new_alloc")
    /\ UNCHANGED <<flavor, cellWeak, handed, observers, owners, value, fRet,
                   error, ret, everUpgraded>>
    /\ UNCHANGED twin

\* new(), second statement: Rc::downgrade(&strong)
NewDowngrade ==
    /\ pc = "n_alloc"
    /\ a' = IncWeak(a)
    /\ cellWeak' = TRUE
    /\ pc' = "n_down"
    /\ last' = Did("new_downgrade")
    /\ UNCHANGED <<flavor, handed, observers, owners, value, fRet, error, ret,
                   everUpgraded>>
    /\ UNCHANGED twin

\* a new() that leaks `strong` instead of dropping it
NewScopeEndLeak(b) == b

\* the end of new()'s scope drops `strong`: strong = 0, weak = 1
NewScopeEnd(b) == DecStrong(b, FALSE, "main")

\* MaybeRc::new() as a whole (the same code in lib.rs and rc.rs)
NewWhole(b) == NewScopeEnd(IncWeak(RcNew))

\* new(), end of scope: the Rc<UnsafeCell<MaybeUninit<T>>> is dropped
NewDropStrong ==
    /\ pc = "n_down"
    /\ a' = NewScopeEnd(a)
    /\ pc' = "cell"
    /\ last' = Did("new")
    /\ UNCHANGED <<flavor, cellWeak, handed, observers, owners, value, fRet,
                   error, ret, everUpgraded>>
    /\ TwinDoes(NewWhole(twin.a), Did("new"))

\* a downgrade that transmutes a bitwise copy of self.weak without cloning
DowngradeNoClone(b) == b

\* self.weak.clone() in downgrade: one more weak count for the new Weak<T>
DowngradeClone(b) == IncWeak(b)

\* downgrade(&self): transmute(self.weak.clone())
Downgrade ==
    /\ pc = "cell"
    /\ observers < MaxObservers
    /\ a' = DowngradeClone(a)
    /\ observers' = observers + 1
    /\ last' = Did("downgrade")
    /\ UNCHANGED <<flavor, pc, cellWeak, handed, owners, value, fRet, error,
                   ret, everUpgraded>>
    /\ TwinDoes(DowngradeClone(twin.a), Did("downgrade"))

\* a cell whose drop leaves the weak count alone
DropCellWeakLeak(b) == b

\* the drop glue of MaybeRc drops its only field, `weak`
DropCellWeak(b) == DecWeak(b)

\* drop(MaybeRc) without materialize: only the field `weak` is dropped
CellDrop ==
    /\ pc = "cell"
    /\ a' = DropCellWeak(a)
    /\ cellWeak' = FALSE
    /\ pc' = "discarded"
    /\ last' = Did("cell_drop")
    /\ UNCHANGED <<flavor, handed, observers, owners, value, fRet, error, ret,
                   everUpgraded>>
    /\ TwinDoes(DropCellWeak(twin.a), Did("cell_drop"))

\* a materialize that leaves the slot as it was
WrittenSkipped(v) == "uninit"

\* the value written by maybe_uninit.write(value)
Written(v) == v

\* materialize(self, value): the payload write.  The value may own k of the
\* user's Weak<T> handles (the cyclic back references).
MatWrite(v, k) ==
    /\ pc = "cell"
    /\ k <= observers
    /\ value' = v
    /\ a' = [a EXCEPT !.slot = Written(v), !.held = k]
    /\ observers' = observers - k
    /\ pc' = "m_inc"
    /\ last' = Did("mat_write")
    /\ UNCHANGED <<flavor, cellWeak, handed, owners, fRet, error, ret,
                   everUpgraded>>
    /\ UNCHANGED twin

\* a materialize that does not raise the strong count
IncrementStrongCountSkipped(b) == b

\* a materialize that takes two strong counts for the one handle it returns
IncrementStrongCountTwice(b) == IncStrong(IncStrong(b))

\* Rc::increment_strong_count(ptr) / Arc::increment_strong_count(ptr):
\* the count goes from 0 to 1 by a plain (Arc: Relaxed) increment
IncrementStrongCount(b) == IncStrong(b)

\* materialize: Rc::increment_strong_count(ptr)
MatInc ==
    /\ pc = "m_inc"
    /\ a' = IncrementStrongCount(a)
    /\ pc' = IF flavor = "lib" THEN "m_trans" ELSE "m_upg"
    /\ last' = Did("mat_inc")
    /\ UNCHANGED <<flavor, cellWeak, handed, observers, owners, value, fRet,
                   error, ret, everUpgraded>>
    /\ UNCHANGED twin

\* rc.rs / arc.rs materialize: let rc = self.weak.upgrade().unwrap()
MatUpgrade ==
    /\ pc = "m_upg"
    /\ IF a.strong > 0
       THEN /\ a' = IncStrong(a)
            /\ pc' = "m_forget"
       ELSE /\ a' = a
            /\ pc' = "panicked"
    /\ last' = Did("mat_upgrade")
    /\ UNCHANGED <<flavor, cellWeak, handed, observers, owners, value, fRet,
                   error, ret, everUpgraded>>
    /\ UNCHANGED twin

\* a materialize that drops self.weak instead of forgetting it
DropWeakInstead(b) == DecWeak(b)

\* std::mem::forget(self.weak): the weak count is not decremented
ForgetWeak(b) == b

\* rc.rs / arc.rs materialize: std::mem::forget(self.weak)
MatForget ==
    /\ pc = "m_forget"
    /\ a' = ForgetWeak(a)
    /\ cellWeak' = FALSE
    /\ pc' = "m_dec"
    /\ last' = Did("mat_forget")
    /\ UNCHANGED <<flavor, handed, observers, owners, value, fRet, error,
                   ret, everUpgraded>>
    /\ UNCHANGED twin

\* a materialize that keeps the temporary second strong count
DecrementStrongCountSkipped(b) == b

\* Rc::decrement_strong_count(ptr) / Arc::decrement_strong_count(ptr) on a
\* pointer to UnsafeCell<MaybeUninit<T>>; the Arc decrement is a Release
DecrementStrongCount(b) == DecStrong(b, FALSE, "main")

\* ------------------------------------ the two single-threaded MaybeRc

\* the value and the observers it owns are moved into the slot
SlotWrite(b, v, k) == [b EXCEPT !.slot = Written(v), !.held = k]

\* self.weak.upgrade().unwrap(): one more strong count when it is not 0
UpgradeUnwrap(b) == IF CanUpgrade(b) THEN IncStrong(b) ELSE b

\* lib.rs materialize as a whole: write, increment, transmute the weak
MaterializeLib(b, v, k) == IncrementStrongCount(SlotWrite(b, v, k))

\* rc.rs materialize as a whole: write, increment, upgrade, forget the
\* weak, decrement, transmute the upgraded Rc
MaterializeRc(b, v, k) ==
    DecrementStrongCount(
        ForgetWeak(UpgradeUnwrap(IncrementStrongCount(SlotWrite(b, v, k)))))

\* materialize of the implementation that is not the main one
MaterializeTwin(b, v, k) ==
    IF flavor = "lib" THEN MaterializeRc(b, v, k) ELSE MaterializeLib(b, v, k)

\* Weak::upgrade on the twin: the result record and the new allocation
TwinUpgradeResult(b) ==
    IF CanUpgrade(b)
    THEN [op |-> "upgrade", res |-> "some", seen |-> b.slot]
    ELSE [op |-> "upgrade", res |-> "none", seen |-> "-"]

TwinUpgrade(b) == IF CanUpgrade(b) THEN IncStrong(b) ELSE b

\* drop of an Rc<T> on the twin: the result record
TwinDropResult(b) ==
    [op |-> "drop_owner",
     res |-> IF b.strong = 1 /\ b.held > 0 THEN "dropped_held" ELSE "-",
     seen |-> "-"]

\* rc.rs / arc.rs materialize: Rc::decrement_strong_count(ptr), where ptr is
\* a pointer to UnsafeCell<MaybeUninit<T>>
MatDec ==
    /\ pc = "m_dec"
    /\ a' = DecrementStrongCount(a)
    /\ pc' = "m_ret"
    /\ last' = Did("mat_dec")
    /\ UNCHANGED <<flavor, cellWeak, handed, observers, owners, value, fRet,
                   error, ret, everUpgraded>>
    /\ UNCHANGED twin

\* rc.rs / arc.rs materialize: transmute(rc) is the returned Rc<T>
MatReturn ==
    /\ pc = "m_ret"
    /\ owners' = owners + 1
    /\ pc' = "owned"
    /\ last' = Did("materialize")
    /\ UNCHANGED <<flavor, a, cellWeak, handed, observers, value, fRet, error,
                   ret, everUpgraded>>
    /\ TwinDoes(MaterializeTwin(twin.a, value, a.held),
                Did("materialize"))

\* lib.rs materialize: transmute(self.weak) is the returned Rc<T>
MatTransmute ==
    /\ pc = "m_trans"
    /\ cellWeak' = FALSE
    /\ owners' = owners + 1
    /\ pc' = "owned"
    /\ last' = Did("materialize")
    /\ UNCHANGED <<flavor, a, handed, observers, value, fRet, error, ret,
                   everUpgraded>>
    /\ TwinDoes(MaterializeTwin(twin.a, value, a.held),
                Did("materialize"))

\* ------------------------------------------------------ try_new_cyclic_rc

\* let mut error = None; Rc::new_cyclic allocates and calls the closure,
\* which builds the Weak<T> from a clone of new_cyclic's Weak
CycAlloc ==
    /\ flavor = "cyc"
    /\ pc = "start"
    /\ error' = None
    /\ a' = IncWeak(RcNewCyclicAlloc)
    /\ cellWeak' = TRUE
    /\ handed' = TRUE
    /\ pc' = "c_f"
    /\ last' = Did("cyc_alloc")
    /\ UNCHANGED <<flavor, observers, owners, value, fRet, ret, everUpgraded>>
    /\ UNCHANGED twin

\* a closure that does not record the error
ClosureErrorLost(r) == None

\* the closure's match on f's result: Err(e) => error = Some(e)
ClosureError(r) == IF r.tag = "Err" THEN [tag |-> "Some", val |-> r.val] ELSE None

\* a closure that returns MaybeUninit::uninit() on both arms
ClosureDataUninit(r) == "uninit"

\* the closure's match on f's result: Err => MaybeUninit::uninit(),
\* Ok(e) => MaybeUninit::new(e)
ClosureData(r) == IF r.tag = "Err" THEN "uninit" ELSE r.val

\* f(&weak) returns r, keeping k of its Weak<T> clones inside the Ok value;
\* the closure matches on r and its local Weak<T> goes out of scope
CycCtorReturn(r, k) ==
    /\ pc = "c_f"
    /\ k <= observers
    /\ r.tag = "Err" => k = 0
    /\ fRet' = r
    /\ error' = ClosureError(r)
    /\ value' = ClosureData(r)
    /\ observers' = observers - k
    /\ a' = DecWeak([a EXCEPT !.held = k])
    /\ handed' = FALSE
    /\ pc' = "c_fin"
    /\ last' = Did("f")
    /\ UNCHANGED <<flavor, cellWeak, owners, ret, everUpgraded>>
    /\ UNCHANGED twin

\* Rc::new_cyclic after the closure: the data is written into the slot,
\* strong is set to 1 and new_cyclic's own Weak is forgotten
CycFinish ==
    /\ pc = "c_fin"
    /\ a' = [a EXCEPT !.slot = value, !.strong = 1]
    /\ cellWeak' = FALSE
    /\ pc' = "c_ret"
    /\ last' = Did("new_cyclic")
    /\ UNCHANGED <<flavor, handed, observers, owners, value, fRet, error, ret,
                   everUpgraded>>
    /\ UNCHANGED twin

\* if let Some(error) = error { return Err(error) } -- `strong`, an
\* Rc<MaybeUninit<T>>, is dropped; otherwise Ok(Rc::from_raw(..))
CycResult(e) == IF e.tag = "Some" THEN Err(e.val) ELSE Ok(a.slot)

\* an error return that drops `strong` as an Rc<T>
DropStrongLocalTyped(b) == DecStrong(b, TRUE, "main")

\* an error return that leaks `strong`
DropStrongLocalLeak(b) == b

\* return Err(error) ends the scope of `strong`, an Rc<MaybeUninit<T>>
DropStrongLocal(b) == DecStrong(b, FALSE, "main")

CycReturn ==
    /\ pc = "c_ret"
    /\ ret' = CycResult(error)
    /\ IF error.tag = "Some"
       THEN /\ a' = DropStrongLocal(a)
            /\ owners' = owners
            /\ pc' = "discarded"
       ELSE /\ a' = a
            /\ owners' = owners + 1
            /\ pc' = "owned"
    /\ last' = Did("try_new_cyclic_rc")
    /\ UNCHANGED <<flavor, cellWeak, handed, observers, value, fRet, error,
                   everUpgraded>>
    /\ UNCHANGED twin

\* ------------------------------------------- Weak<T> and Rc<T> in user code

\* Weak::clone
CloneObserver(t) ==
    /\ UserCode(t)
    /\ ObserverAvailable
    /\ observers < MaxObservers
    /\ a' = IncWeak(a)
    /\ observers' = observers + 1
    /\ last' = Did("clone_observer")
    /\ UNCHANGED <<flavor, pc, cellWeak, handed, owners, value, fRet, error,
                   ret, everUpgraded>>
    /\ TwinDoes(IncWeak(twin.a), Did("clone_observer"))

\* Weak::drop
DropObserver(t) ==
    /\ UserCode(t)
    /\ observers > 0
    /\ a' = DecWeak(a)
    /\ observers' = observers - 1
    /\ last' = Did("drop_observer")
    /\ UNCHANGED <<flavor, pc, cellWeak, handed, owners, value, fRet, error,
                   ret, everUpgraded>>
    /\ TwinDoes(DecWeak(twin.a), Did("drop_observer"))

\* Weak::upgrade
Upgrade(t) ==
    /\ UserCode(t)
    /\ ObserverAvailable
    /\ IF CanUpgrade(a)
       THEN /\ owners < MaxOwners
            /\ \E s \in Visible(a, t) :
                 last' = [op |-> "upgrade", res |-> "some", seen |-> s]
            /\ a' = IncStrong(a)
            /\ owners' = owners + 1
            /\ everUpgraded' = TRUE
       ELSE /\ last' = [op |-> "upgrade", res |-> "none", seen |-> "-"]
            /\ UNCHANGED <<a, owners, everUpgraded>>
    /\ UNCHANGED <<flavor, pc, cellWeak, handed, observers, value, fRet,
                   error, ret>>
    /\ TwinDoes(TwinUpgrade(twin.a), TwinUpgradeResult(twin.a))

\* Rc::clone
CloneOwner(t) ==
    /\ UserCode(t)
    /\ owners > 0
    /\ owners < MaxOwners
    /\ a' = IncStrong(a)
    /\ owners' = owners + 1
    /\ last' = Did("clone_owner")
    /\ UNCHANGED <<flavor, pc, cellWeak, handed, observers, value, fRet,
                   error, ret, everUpgraded>>
    /\ TwinDoes(IncStrong(twin.a), Did("clone_owner"))

\* Rc::<T>::drop
DropOwner(t) ==
    /\ UserCode(t)
    /\ owners > 0
    /\ a' = DecStrong(a, TRUE, t)
    /\ owners' = owners - 1
    /\ last' = [op |-> "drop_owner",
                res |-> IF a.strong = 1 /\ a.held > 0
                        THEN "dropped_held" ELSE "-",
                seen |-> "-"]
    /\ UNCHANGED <<flavor, pc, cellWeak, handed, observers, value, fRet,
                   error, ret, everUpgraded>>
    /\ TwinDoes(DecStrong(twin.a, TRUE, t), TwinDropResult(twin.a))

Next ==
    \/ NewAlloc
    \/ NewDowngrade
    \/ NewDropStrong
    \/ Downgrade
    \/ CellDrop
    \/ \E v \in Values, k \in 0..MaxObservers : MatWrite(v, k)
    \/ MatInc
    \/ MatTransmute
    \/ MatUpgrade
    \/ MatForget
    \/ MatDec
    \/ MatReturn
    \/ CycAlloc
    \/ \E r \in {Ok(v) : v \in Values} \cup {Err(e) : e \in Errors},
          k \in 0..MaxObservers : CycCtorReturn(r, k)
    \/ CycFinish
    \/ CycReturn
    \/ \E t \in Threads : CloneObserver(t)
    \/ \E t \in Threads : DropObserver(t)
    \/ \E t \in Threads : Upgrade(t)
    \/ \E t \in Threads : CloneOwner(t)
    \/ \E t \in Threads : DropOwner(t)

Spec == Init /\ [][Next]_vars

TypeOK ==
    /\ flavor \in Flavors
    /\ a.strong \in Nat /\ a.weak \in Nat
    /\ observers \in 0..MaxObservers
    /\ owners \in 0..(MaxOwners + 1)
    /\ a.state = "freed" => observers = 0 /\ owners = 0

\* ------------------------------------------------------------ properties

\* every owning handle that user code ever held has been dropped after the
\* cell was materialized (by materialize or by a successful constructor)
OwnersGone == pc = "owned" /\ owners = 0

\* C1: while the cell exists and materialize has not been called, no
\* upgrade() on any observer handle has ever returned an owner, however many
\* observers were made by downgrade or clone and in whatever order they were
\* cloned, upgraded and dropped.
C1_UpgradeAbsentBeforeMaterialize ==
    (flavor \in {"lib", "rc", "arc"} /\ pc = "cell")
        => /\ ~everUpgraded
           /\ last.op = "upgrade" => last.res = "none"

C1_Witness ==
    /\ flavor \in {"lib", "rc", "arc"}
    /\ pc = "cell"
    /\ observers >= 2
    /\ last.op = "upgrade"
    /\ last.res = "none"

\* C2: once materialize(v) has returned and while the strong count is not 0,
\* an upgrade() on an observer returns an owner, and the payload it finds is
\* the v that was passed to materialize.
C2_UpgradeAfterMaterializeSeesValue ==
    (/\ flavor \in {"lib", "rc", "arc"}
     /\ pc = "owned"
     /\ a.strong > 0
     /\ last.op = "upgrade")
        => /\ last.res = "some"
           /\ last.seen = value
           /\ value \in Values

C2_Witness ==
    /\ flavor \in {"lib", "rc", "arc"}
    /\ pc = "owned"
    /\ last.op = "upgrade"
    /\ last.res = "some"
    /\ last.seen = value
    /\ observers > 0

\* C3: once every owning handle of a materialized allocation has been
\* dropped the strong count is 0, it stays 0 in every later step, and every
\* later upgrade() returns absent.
C3_NoUpgradeAfterLastOwnerDropped ==
    /\ [](OwnersGone => a.strong = 0)
    /\ [][OwnersGone => /\ OwnersGone'
                        /\ a'.strong = 0
                        /\ last'.op = "upgrade" => last'.res = "none"]_vars

C3_Witness ==
    /\ OwnersGone
    /\ a.strong = 0
    /\ observers > 0
    /\ last.op = "upgrade"
    /\ last.res = "none"

\* C4: when the cell is discarded without materialization (dropped, or the
\* constructor of try_new_cyclic_rc returned Err) the destructor of T has
\* not run and never runs later, whatever observers exist and whenever they
\* are dropped.
C4_NoDestructorWithoutMaterialize ==
    pc = "discarded" => a.drops = 0 /\ a.slot = "uninit"

C4_Witness ==
    /\ flavor = "cyc"
    /\ pc = "discarded"
    /\ a.state = "freed"
    /\ last.op = "drop_observer"

\* C5: the payload destructor of a materialized allocation runs at most
\* once, it runs in the step that takes the strong count to 0, and it has
\* run once all owning handles are dropped, whatever the number of observer
\* handles still alive.
C5_DestructorExactlyOnceAtLastOwner ==
    /\ [](a.drops <= 1)
    /\ [](OwnersGone => a.drops = 1)
    /\ [][a'.drops # a.drops => /\ a.strong > 0
                                /\ a'.strong = 0
                                /\ a'.drops = a.drops + 1]_vars

C5_Witness ==
    /\ OwnersGone
    /\ a.drops = 1
    /\ observers > 0
    /\ a.state = "live"

\* C6: when the constructor returned Ok(t), try_new_cyclic_rc returns
\* Ok(owner) whose payload is t, and while the strong count is not 0 an
\* upgrade() on a captured observer returns an owner of the payload t.
C6_CyclicOkReturnsOwnerOfValue ==
    (flavor = "cyc" /\ fRet.tag = "Ok" /\ pc \in {"owned", "discarded"})
        => /\ pc = "owned"
           /\ ret = Ok(fRet.val)
           /\ (last.op = "upgrade" /\ a.strong > 0)
                  => (last.res = "some" /\ last.seen = fRet.val)

C6_Witness ==
    /\ flavor = "cyc"
    /\ pc = "owned"
    /\ fRet.tag = "Ok"
    /\ a.held > 0
    /\ last.op = "upgrade"
    /\ last.res = "some"

\* C7: try_new_cyclic_rc returns Err(e) exactly when the constructor
\* returned Err(e), with the same e, and returns Ok exactly when the
\* constructor returned Ok.
C7_ErrorPropagatedVerbatim ==
    (flavor = "cyc" /\ pc \in {"owned", "discarded"})
        => /\ ret.tag \in {"Ok", "Err"}
           /\ ret.tag = fRet.tag
           /\ ret.tag = "Err" => ret.val = fRet.val
           /\ ret.tag = "Err" <=> pc = "discarded"

C7_Witness ==
    /\ flavor = "cyc"
    /\ pc = "discarded"
    /\ fRet = Err("e2")
    /\ ret = Err("e2")

\* C8: when the constructor returned Err, no upgrade() on an observer of
\* that allocation has returned an owner before, and none returns one later.
C8_NoUpgradeAfterFailedConstruction ==
    (flavor = "cyc" /\ fRet.tag = "Err")
        => /\ ~everUpgraded
           /\ last.op = "upgrade" => last.res = "none"

C8_Witness ==
    /\ flavor = "cyc"
    /\ fRet.tag = "Err"
    /\ pc = "discarded"
    /\ observers > 0
    /\ last.op = "upgrade"
    /\ last.res = "none"

\* C9: while the constructor of try_new_cyclic_rc runs every upgrade()
\* returns absent, and an upgrade() has returned an owner only after the
\* constructor returned Ok and the value was stored.
C9_NoUpgradeWhileConstructing ==
    flavor = "cyc"
        => /\ pc = "c_f" => (/\ ~everUpgraded
                             /\ last.op = "upgrade" => last.res = "none")
           /\ everUpgraded => (/\ fRet.tag = "Ok"
                               /\ pc = "owned"
                               /\ a.slot # "uninit")

C9_Witness ==
    /\ flavor = "cyc"
    /\ pc = "c_f"
    /\ observers > 0
    /\ last.op = "upgrade"
    /\ last.res = "none"

\* C10: in the Arc variant every upgrade() that returns an owner, at
\* whatever point of a concurrent materialize, finds the fully written
\* payload in the slot.
C10_UpgradeSeesWrittenPayload ==
    (flavor = "arc" /\ last.op = "upgrade" /\ last.res = "some")
        => last.seen = value /\ value \in Values

\* the positions of the main thread inside materialize
MatPcs == {"m_inc", "m_trans", "m_upg", "m_forget", "m_dec", "m_ret"}

\* C11: materialize does not fail: the unwrap of self.weak.upgrade() never
\* panics, and from the strong-count increment to the return of materialize
\* the strong count is at least 1, whatever another thread clones, upgrades
\* or drops in between.
C11_MaterializeCannotFail ==
    /\ pc # "panicked"
    /\ pc \in {"m_trans", "m_upg", "m_forget", "m_dec", "m_ret"} => a.strong >= 1
    /\ pc \in {"m_forget", "m_dec"} => a.strong >= 2
    /\ pc \in MatPcs => a.state = "live"

C11_Witness ==
    /\ flavor = "arc"
    /\ pc = "m_dec"
    /\ last.op = "drop_owner"
    /\ observers > 0

\* C12: the allocation is freed at most once, only in a step that leaves
\* both counts at 0, and once it is freed no cell, observer handle or owning
\* handle refers to it; also when the payload stores observer handles of
\* its own allocation, which its destructor drops.
C12_FreedOnceAndUnreferenced ==
    /\ [](a.frees <= 1)
    /\ [](a.state = "freed" => /\ a.strong = 0
                               /\ a.weak = 0
                               /\ a.frees = 1
                               /\ ~cellWeak
                               /\ ~handed
                               /\ observers = 0
                               /\ owners = 0
                               /\ a.held = 0)
    /\ [][a'.frees # a.frees => /\ a'.strong = 0
                                /\ a'.weak = 0
                                /\ a'.state = "freed"]_vars

C12_Witness ==
    /\ a.state = "freed"
    /\ a.drops = 1
    /\ last.op = "drop_owner"
    /\ last.res = "dropped_held"
    /\ pc = "owned"

\* C13 as stated: in every reachable state an empty payload slot implies
\* that the strong count is 0, also inside new() and on the failure path of
\* try_new_cyclic_rc.
C13_EmptySlotImpliesNoStrong ==
    a.slot = "uninit" => a.strong = 0

\* C13 as amended: an empty payload slot implies that the strong count is 0,
\* except inside new() before its temporary Rc is dropped and inside
\* try_new_cyclic_rc between the end of Rc::new_cyclic and the return; there
\* the count is 1, held by the function's own Rc over the MaybeUninit
\* payload, no owning handle of T exists and no user code can upgrade.
C13_EmptySlotStrongOnlyInsideCalls ==
    (a.slot = "uninit" /\ a.strong > 0)
        => /\ pc \in {"n_alloc", "n_down", "c_ret"}
           /\ a.strong = 1
           /\ owners = 0
           /\ ~(\E t \in Threads : UserCode(t) /\ ObserverAvailable)
           /\ pc = "c_ret" => fRet.tag = "Err"

C13_Witness ==
    /\ pc = "c_ret"
    /\ fRet.tag = "Err"
    /\ a.slot = "uninit"
    /\ a.strong = 1
    /\ observers > 0

\* the cell of lib.rs / rc.rs / arc.rs was dropped without materialize
CellDiscarded == flavor \in {"lib", "rc", "arc"} /\ pc = "discarded"

\* C14: after the cell is dropped without materialization no observer can
\* upgrade any more, the drop of the cell takes exactly one off the weak
\* count, and the allocation is freed exactly when no observer handle is
\* left (at the drop of the cell if there was none).
C14_DroppedCellFreesWithLastObserver ==
    /\ [](CellDiscarded => /\ a.strong = 0
                           /\ ~everUpgraded
                           /\ last.op = "upgrade" => last.res = "none"
                           /\ a.weak = observers
                           /\ a.state = "freed" <=> observers = 0)
    /\ [][(pc = "cell" /\ pc' = "discarded") => a'.weak = a.weak - 1]_vars
    /\ [][CellDiscarded => CellDiscarded' /\ a'.strong = 0]_vars

C14_Witness ==
    /\ CellDiscarded
    /\ a.state = "freed"
    /\ last.op = "drop_observer"

\* the Weak<T> handles that exist: user-held, stored in the payload, and
\* the one lent to the constructor
LiveObservers == observers + a.held + (IF handed THEN 1 ELSE 0)

\* the one weak count that is not an observer: it exists while the cell (or
\* new_cyclic's Weak) is live or the strong count is not 0
Reservation == IF cellWeak \/ a.strong > 0 THEN 1 ELSE 0

\* C15 as stated: in every reachable state the weak count is the number of
\* live observer handles plus the one reservation.
C15_WeakIsObserversPlusReservation ==
    a.weak = LiveObservers + Reservation

\* C15 as amended: the weak count is the number of live observer handles
\* plus the one reservation in every state except inside new() between
\* Rc::downgrade and the drop of the temporary Rc, where it is 2 with no
\* observer; and no step of materialize changes the weak count.
C15_WeakCountAccounting ==
    /\ [](pc # "n_down" => a.weak = LiveObservers + Reservation)
    /\ [](pc = "n_down" => a.weak = 2 /\ LiveObservers = 0)
    /\ [][(flavor # "cyc" /\ pc' # pc /\ pc' \in MatPcs \cup {"owned"})
              => a'.weak = a.weak]_vars

C15_Witness ==
    /\ pc = "owned"
    /\ last.op = "materialize"
    /\ observers > 0
    /\ a.held > 0
    /\ a.weak = observers + a.held + 1

\* the Rc over the MaybeUninit payload that new() and try_new_cyclic_rc
\* hold in their local `strong`
LocalStrong == IF pc \in {"n_alloc", "n_down", "c_ret"} THEN 1 ELSE 0

\* C16: whenever no materialize call is in progress the strong count is the
\* number of live owning handles; when materialize returns and no upgrade
\* has succeeded, it is exactly 1.
C16_StrongIsNumberOfOwners ==
    /\ pc \notin MatPcs => a.strong = owners + LocalStrong
    /\ (last.op = "materialize" /\ ~everUpgraded) => a.strong = 1

C16_Witness ==
    /\ flavor = "arc"
    /\ last.op = "materialize"
    /\ ~everUpgraded
    /\ a.strong = 1
    /\ observers > 0

\* C18: once the cell is materialized or discarded and every owning handle
\* and every observer handle outside the payload is dropped, the allocation
\* has been freed (the payload holds observer handles only).
C18_NoLeak ==
    (pc \in {"owned", "discarded"} /\ owners = 0 /\ observers = 0)
        => /\ a.state = "freed"
           /\ a.frees = 1
           /\ a.held = 0

C18_Witness ==
    /\ flavor = "cyc"
    /\ pc = "owned"
    /\ observers = 0
    /\ a.state = "freed"
    /\ last.op = "drop_owner"
    /\ last.res = "dropped_held"

\* C17: lib.rs and rc.rs, run on the same sequence of create / observe /
\* upgrade / materialize / clone / drop operations, give the same result
\* for every operation (in particular every upgrade) and the same strong
\* count, weak count, payload state and freed status after every completed
\* operation.
C17_LibAndRcEquivalent ==
    (Twinned /\ pc \in {"cell", "owned", "discarded"})
        => /\ View(twin.a) = View(a)
           /\ twin.a.held = a.held
           /\ twin.last = last

C17_Witness ==
    /\ flavor = "rc"
    /\ pc = "owned"
    /\ last.op = "upgrade"
    /\ last.res = "some"
    /\ twin.last = last
    /\ twin.a.strong = 2
    /\ a.strong = 2

====
